---- MODULE Spec2Model ----
(***************************************************************************)
(* State-machine model of the yoyow-core account statistics / membership   *)
(* index code (account_object.cpp): the fixed-point fee cutter cut_fee,    *)
(* the fee distribution account_statistics_object::process_fees / pay_fee, *)
(* the stake-time accumulator compute/update/set_coin_seconds_earned and   *)
(* the account_member_index lifecycle hooks.                               *)
(*                                                                         *)
(* Every group of operations has its own specification (SpecIndex,         *)
(* SpecMembers, SpecCut, SpecFees, SpecCoin, SpecCoinSet, SpecCoinConst)   *)
(* over the same variables; the variables of the other groups stay as      *)
(* constructed.                                                            *)
(***************************************************************************)
EXTENDS Integers, FiniteSets, Sequences, TLC

VARIABLES
    \* ---- account_member_index and the account objects it indexes
    accounts,                        \* uid -> account object (authorities, memo_key) or NoAccount
    account_to_account_memberships,  \* member uid -> set of account uids
    account_to_key_memberships,      \* member key -> set of account uids
    before_account_members,          \* transient snapshot of about_to_modify
    before_key_members,              \* transient snapshot of about_to_modify
    modifying,                       \* uid between about_to_modify and object_modified, or 0
    \* ---- cut_fee as called on its own: arguments and returned value
    cut_a, cut_p,
    cut_result,                      \* << >> before the call returns, << value >> after
    \* ---- the account process_fees is called for (account_object fields)
    referrer, lifetime_referrer, registrar,
    network_fee_percentage, lifetime_referrer_fee_percentage, referrer_rewards_percentage,
    \* ---- its account_statistics_object: fee counters
    pending_fees, pending_vested_fees, lifetime_fees_paid,
    \* ---- the database around them
    accumulated_fees,                \* asset_dynamic_data_object of the core asset
    reserve_percent_of_fee,          \* global_properties.parameters
    basic_accounts,                  \* uids for which is_basic_account(head_block_time()) holds
    \* ---- what the most recent operation did (observation of its calls)
    payouts,                         \* the shares of each pay_out_fees call, in order
    deposits,                        \* the deposit_cashback calls, in order
    mutations,                       \* the d.modify calls, in order (name of the object)
    \* ---- its account_statistics_object: stake-time accumulator
    core_balance, core_leased_in, core_leased_out,
    average_coins, average_coins_last_update,
    coin_seconds_earned, coin_seconds_earned_last_update,
    window,                          \* the window every call is given (fixed)
    head_block_time,                 \* the time of the ledger, where the calls follow it
    \* ---- the most recent operation on the statistics object and its arguments
    last_op,
    \* ---- a platform_vote_update_operation and the outcome of its validate()
    platform_to_add, platform_to_remove,   \* flat_set<account_uid_type>
    validate_result                        \* << >> before the call returns, << outcome >> after

indexVars == << accounts, account_to_account_memberships, account_to_key_memberships,
                before_account_members, before_key_members, modifying >>

cutVars == << cut_a, cut_p, cut_result >>

feeVars == << referrer, lifetime_referrer, registrar,
              network_fee_percentage, lifetime_referrer_fee_percentage,
              referrer_rewards_percentage,
              pending_fees, pending_vested_fees, lifetime_fees_paid,
              accumulated_fees, reserve_percent_of_fee, basic_accounts,
              payouts, deposits, mutations >>

coinVars == << core_balance, core_leased_in, core_leased_out,
               average_coins, average_coins_last_update,
               coin_seconds_earned, coin_seconds_earned_last_update, window,
               head_block_time >>

voteVars == << platform_to_add, platform_to_remove, validate_result >>

vars == << indexVars, cutVars, feeVars, coinVars, last_op, voteVars >>

(***************************************************************************)
(* Membership index                                                        *)
(***************************************************************************)

\* Bounds of the index model.
MaxUid == 2

Uids == 1..MaxUid
Keys == {"K1", "K2"}
NoAccount == [absent |-> TRUE]

\* Weights of an account_uid_auths entry; weight_type has room for 0.
Weights == {0, 1}

\* An authority: the entries (uid, weight) of its account_uid_auths map and
\* the keys of its key_auths map (no code here reads the weight of a key).
NoAuthority == [account_uid_auths |-> {}, key_auths |-> {}]

\* The authorities with one entry, its weight among weights.
SingleAuthorities(weights) ==
    { [account_uid_auths |-> {[uid |-> u, weight |-> w]}, key_auths |-> {}] :
          u \in Uids, w \in weights }
        \cup { [account_uid_auths |-> {}, key_auths |-> {k}] : k \in Keys }

\* Account objects with at most one authority entry in all (and a memo key).
AccountsWith(weights) ==
    LET one == SingleAuthorities(weights)
        Account(o, a, s, k) ==
            [owner |-> o, active |-> a, secondary |-> s, memo_key |-> k]
    IN { Account(NoAuthority, NoAuthority, NoAuthority, k) : k \in Keys }
           \cup { Account(x, NoAuthority, NoAuthority, k) : x \in one, k \in Keys }
           \cup { Account(NoAuthority, x, NoAuthority, k) : x \in one, k \in Keys }
           \cup { Account(NoAuthority, NoAuthority, x, k) : x \in one, k \in Keys }

\* The account objects the object store hands to the hooks: every entry
\* with a positive weight, or entries of weight 0 among them.
AccountValues == AccountsWith(Weights \ {0})

WeightedAccountValues == AccountsWith(Weights)

get_account_members_of_nonzero_weight(acc) ==
    { auth.uid : auth \in
          { a \in acc.owner.account_uid_auths \cup acc.active.account_uid_auths
                     \cup acc.secondary.account_uid_auths : a.weight # 0 } }

get_account_members(acc) ==
    { auth.uid : auth \in acc.owner.account_uid_auths }
        \cup { auth.uid : auth \in acc.active.account_uid_auths }
        \cup { auth.uid : auth \in acc.secondary.account_uid_auths }

get_key_members(acc) ==
    acc.owner.key_auths \cup acc.active.key_auths \cup {acc.memo_key}

\* std::set_difference(a, b): the elements of a that are not in b.
set_difference_swapped(a, b) == b \ a

set_difference(a, b) == a \ b

\* map[item].insert(uid) for every item of members (operator[] creates the
\* entry; an absent entry and an empty set are the same relation).
InsertAll(map, members, uid) ==
    [m \in DOMAIN map |-> IF m \in members THEN map[m] \cup {uid} ELSE map[m]]

\* map[item].erase(uid) for every item of members.
EraseAll(map, members, uid) ==
    [m \in DOMAIN map |-> IF m \in members THEN map[m] \ {uid} ELSE map[m]]

IndexInit ==
    /\ accounts = [u \in Uids |-> NoAccount]
    /\ account_to_account_memberships = [m \in Uids |-> {}]
    /\ account_to_key_memberships = [k \in Keys |-> {}]
    /\ before_account_members = {}
    /\ before_key_members = {}
    /\ modifying = 0

\* The object store creates account uid and calls object_inserted.
object_inserted(uid, acc) ==
    /\ modifying = 0
    /\ accounts[uid] = NoAccount
    /\ accounts' = [accounts EXCEPT ![uid] = acc]
    /\ account_to_account_memberships' =
           InsertAll(account_to_account_memberships, get_account_members(acc), uid)
    /\ account_to_key_memberships' =
           InsertAll(account_to_key_memberships, get_key_members(acc), uid)
    /\ UNCHANGED << before_account_members, before_key_members, modifying >>
    /\ UNCHANGED << cutVars, feeVars, coinVars, last_op, voteVars >>

\* The object store calls object_removed and deletes account uid.
object_removed(uid) ==
    /\ modifying = 0
    /\ accounts[uid] # NoAccount
    /\ account_to_key_memberships' =
           EraseAll(account_to_key_memberships, get_key_members(accounts[uid]), uid)
    /\ account_to_account_memberships' =
           EraseAll(account_to_account_memberships, get_account_members(accounts[uid]), uid)
    /\ accounts' = [accounts EXCEPT ![uid] = NoAccount]
    /\ UNCHANGED << before_account_members, before_key_members, modifying >>
    /\ UNCHANGED << cutVars, feeVars, coinVars, last_op, voteVars >>

\* First hook of a modify: snapshot the member sets of the object as it is.
about_to_modify(uid) ==
    /\ modifying = 0
    /\ accounts[uid] # NoAccount
    /\ before_key_members' = get_key_members(accounts[uid])
    /\ before_account_members' = get_account_members(accounts[uid])
    /\ modifying' = uid
    /\ UNCHANGED << accounts, account_to_account_memberships, account_to_key_memberships >>
    /\ UNCHANGED << cutVars, feeVars, coinVars, last_op, voteVars >>

\* The object store applies the mutation (the object becomes acc) and calls
\* the second hook with the object as it is now.
object_modified(uid, acc) ==
    /\ modifying = uid
    /\ accounts' = [accounts EXCEPT ![uid] = acc]
    /\ LET after_account_members == get_account_members(acc)
           after_key_members == get_key_members(acc)
       IN /\ account_to_account_memberships' =
                 InsertAll(EraseAll(account_to_account_memberships,
                                    set_difference(before_account_members, after_account_members),
                                    uid),
                           set_difference(after_account_members, before_account_members),
                           uid)
          /\ account_to_key_memberships' =
                 InsertAll(EraseAll(account_to_key_memberships,
                                    set_difference(before_key_members, after_key_members),
                                    uid),
                           set_difference(after_key_members, before_key_members),
                           uid)
    /\ modifying' = 0
    /\ UNCHANGED << before_account_members, before_key_members >>
    /\ UNCHANGED << cutVars, feeVars, coinVars, last_op, voteVars >>

NextIndex ==
    \/ \E uid \in Uids, acc \in AccountValues : object_inserted(uid, acc)
    \/ \E uid \in Uids : object_removed(uid)
    \/ \E uid \in Uids : about_to_modify(uid)
    \/ \E uid \in Uids, acc \in AccountValues : object_modified(uid, acc)

\* The hooks on accounts whose entries may have weight 0, at most two
\* accounts alive at a time.
NextMembers ==
    \/ \E uid \in Uids, acc \in WeightedAccountValues :
           /\ Cardinality({u \in Uids : accounts[u] # NoAccount}) < 2
           /\ object_inserted(uid, acc)
    \/ \E uid \in Uids : object_removed(uid)
    \/ \E uid \in Uids : about_to_modify(uid)
    \/ \E uid \in Uids, acc \in WeightedAccountValues : object_modified(uid, acc)

(***************************************************************************)
(* Fixed-point fee cutter                                                  *)
(***************************************************************************)

GRAPHENE_100_PERCENT == 10000

\* Bounds of the fee model.
MaxAmount == 12
MaxFee == 2
MaxPaid == 4

\* uint16_t percentages the claims are about: 0 .. GRAPHENE_100_PERCENT.
Percentages == {0, 1, 2000, 3333, 5000, 9999, GRAPHENE_100_PERCENT}

Amounts == 0..MaxAmount

\* cut_fee(a, p), for a >= 0.  The code multiplies in fc::uint128: with a
\* below 2^63 and p below 2^16 the product stays below 2^79, so the 128-bit
\* intermediate never wraps and r.to_uint64() keeps the whole quotient.
cut_fee_round_up(a, p) ==
    IF a = 0 \/ p = 0 THEN 0
    ELSE IF p = GRAPHENE_100_PERCENT THEN a
    ELSE (a * p + GRAPHENE_100_PERCENT - 1) \div GRAPHENE_100_PERCENT

cut_fee(a, p) ==
    IF a = 0 \/ p = 0 THEN 0
    ELSE IF p = GRAPHENE_100_PERCENT THEN a
    ELSE (a * p) \div GRAPHENE_100_PERCENT

CutIdle ==
    /\ cut_a = 0
    /\ cut_p = 0
    /\ cut_result = << >>

\* The arguments of a call of cut_fee.
CutInit ==
    /\ cut_a \in Amounts
    /\ cut_p \in Percentages
    /\ cut_result = << >>

\* The call returns.
CutFee ==
    /\ cut_result = << >>
    /\ cut_result' = << cut_fee(cut_a, cut_p) >>
    /\ UNCHANGED << cut_a, cut_p >>
    /\ UNCHANGED << indexVars, feeVars, coinVars, last_op, voteVars >>

NextCut == CutFee

(***************************************************************************)
(* Fee distribution                                                        *)
(***************************************************************************)

\* Percentages of the account and of the global parameters.
FeePercentages == {0, 3333, GRAPHENE_100_PERCENT}

\* Values of the chain parameter cashback_vesting_threshold: fees of 0..MaxFee
\* fall below, on and above them.
Thresholds == {0, 1}

\* Line 59-62: the referrer the account has after the check of pay_out_fees.
unchecked_referrer(ref) == ref

checked_referrer(ref) ==
    IF ref \in basic_accounts THEN lifetime_referrer ELSE ref

\* Line 85.
registrar_cut_as_percentage(referral, referrer_cut) ==
    cut_fee(referral, GRAPHENE_100_PERCENT - referrer_rewards_percentage)

registrar_cut_of(referral, referrer_cut) == referral - referrer_cut

\* Line 74.
lifetime_cut_of_remainder(core_fee_total) ==
    cut_fee(core_fee_total - cut_fee(core_fee_total, network_fee_percentage),
            lifetime_referrer_fee_percentage)

lifetime_cut_of(core_fee_total) ==
    cut_fee(core_fee_total, lifetime_referrer_fee_percentage)

\* Line 78: the amount added to accumulated_fees.
accumulated_fees_credit_after_reserve(network_cut, accumulated) == accumulated

accumulated_fees_credit(network_cut, accumulated) == network_cut

\* One call of the pay_out_fees lambda for an account whose referrer is ref:
\* the referrer it leaves, its shares, its deposit_cashback calls and its
\* d.modify calls.
pay_out_fees(ref, core_fee_total, require_vesting) ==
    LET new_referrer == checked_referrer(ref)
        network_cut == cut_fee(core_fee_total, network_fee_percentage)
        reserveed == cut_fee(network_cut, reserve_percent_of_fee)
        accumulated == network_cut - reserveed
        lifetime_cut == lifetime_cut_of(core_fee_total)
        referral == core_fee_total - network_cut - lifetime_cut
        referrer_cut == cut_fee(referral, referrer_rewards_percentage)
        registrar_cut == registrar_cut_of(referral, referrer_cut)
    IN [ referrer |-> new_referrer,
         credit |-> accumulated_fees_credit(network_cut, accumulated),
         shares |-> [ core_fee_total |-> core_fee_total,
                      require_vesting |-> require_vesting,
                      network_cut |-> network_cut,
                      reserveed |-> reserveed,
                      accumulated |-> accumulated,
                      lifetime_cut |-> lifetime_cut,
                      referral |-> referral,
                      referrer_cut |-> referrer_cut,
                      registrar_cut |-> registrar_cut ],
         deposits |-> << [ to |-> lifetime_referrer, amount |-> lifetime_cut,
                           require_vesting |-> require_vesting ],
                         [ to |-> new_referrer, amount |-> referrer_cut,
                           require_vesting |-> require_vesting ],
                         [ to |-> registrar, amount |-> registrar_cut,
                           require_vesting |-> require_vesting ] >>,
         mutations |-> (IF ref \in basic_accounts THEN << "account" >> ELSE << >>)
                           \o << "asset_dynamic_data" >> ]

\* Lines 94-95: the pool each of the two calls distributes.
core_fee_total_pending_fees(require_vesting) == pending_fees

core_fee_total_of(require_vesting) ==
    IF require_vesting THEN pending_fees ELSE pending_vested_fees

\* Line 53.
always_pending == TRUE

has_pending == pending_fees > 0 \/ pending_vested_fees > 0

\* Line 98.
lifetime_fees_paid_plus_pending_fees == lifetime_fees_paid + pending_fees

lifetime_fees_paid_after == lifetime_fees_paid + pending_fees + pending_vested_fees

FeesIdle ==
    /\ referrer = 1
    /\ lifetime_referrer = 1
    /\ registrar = 1
    /\ network_fee_percentage = 0
    /\ lifetime_referrer_fee_percentage = 0
    /\ referrer_rewards_percentage = 0
    /\ reserve_percent_of_fee = 0
    /\ basic_accounts = {}
    /\ pending_fees = 0
    /\ pending_vested_fees = 0
    /\ lifetime_fees_paid = 0
    /\ accumulated_fees = 0
    /\ payouts = << >>
    /\ deposits = << >>
    /\ mutations = << >>

\* An account with a valid percentage triple (the validation layer has
\* passed), a registrar that is a lifetime member (line 58), and a fresh
\* statistics object.
FeesInit ==
    /\ referrer \in Uids
    /\ lifetime_referrer \in Uids
    /\ registrar \in Uids
    /\ basic_accounts \in SUBSET (Uids \ {registrar})
    /\ network_fee_percentage \in FeePercentages
    /\ lifetime_referrer_fee_percentage \in FeePercentages
    /\ network_fee_percentage + lifetime_referrer_fee_percentage <= GRAPHENE_100_PERCENT
    /\ referrer_rewards_percentage \in FeePercentages
    /\ reserve_percent_of_fee \in FeePercentages
    /\ pending_fees = 0
    /\ pending_vested_fees = 0
    /\ lifetime_fees_paid = 0
    /\ accumulated_fees = 0
    /\ payouts = << >>
    /\ deposits = << >>
    /\ mutations = << >>

\* Line 107.
above_or_at_threshold(core_fee, cashback_vesting_threshold) ==
    core_fee >= cashback_vesting_threshold

above_threshold(core_fee, cashback_vesting_threshold) ==
    core_fee > cashback_vesting_threshold

pay_fee(core_fee, cashback_vesting_threshold) ==
    /\ lifetime_fees_paid + pending_fees + pending_vested_fees + core_fee <= MaxPaid
    /\ IF above_threshold(core_fee, cashback_vesting_threshold)
       THEN /\ pending_fees' = pending_fees + core_fee
            /\ UNCHANGED pending_vested_fees
       ELSE /\ pending_vested_fees' = pending_vested_fees + core_fee
            /\ UNCHANGED pending_fees
    /\ payouts' = << >>
    /\ deposits' = << >>
    /\ mutations' = << >>
    /\ last_op' = [ name |-> "pay_fee", core_fee |-> core_fee,
                    cashback_vesting_threshold |-> cashback_vesting_threshold ]
    /\ UNCHANGED << referrer, lifetime_referrer, registrar,
                    network_fee_percentage, lifetime_referrer_fee_percentage,
                    referrer_rewards_percentage, lifetime_fees_paid,
                    accumulated_fees, reserve_percent_of_fee, basic_accounts >>
    /\ UNCHANGED << indexVars, cutVars, coinVars, voteVars >>

process_fees ==
    /\ IF has_pending
       THEN LET first == pay_out_fees(referrer, core_fee_total_of(TRUE), TRUE)
                second == pay_out_fees(first.referrer, core_fee_total_of(FALSE), FALSE)
            IN /\ referrer' = second.referrer
               /\ accumulated_fees' =
                      accumulated_fees + first.credit + second.credit
               /\ payouts' = << first.shares, second.shares >>
               /\ deposits' = first.deposits \o second.deposits
               /\ mutations' = first.mutations \o second.mutations
                                   \o << "account_statistics" >>
               /\ lifetime_fees_paid' = lifetime_fees_paid_after
               /\ pending_fees' = 0
               /\ pending_vested_fees' = 0
       ELSE /\ payouts' = << >>
            /\ deposits' = << >>
            /\ mutations' = << >>
            /\ UNCHANGED << referrer, accumulated_fees, lifetime_fees_paid,
                            pending_fees, pending_vested_fees >>
    /\ last_op' = [ name |-> "process_fees" ]
    /\ UNCHANGED << lifetime_referrer, registrar,
                    network_fee_percentage, lifetime_referrer_fee_percentage,
                    referrer_rewards_percentage, reserve_percent_of_fee, basic_accounts >>
    /\ UNCHANGED << indexVars, cutVars, coinVars, voteVars >>

NextFees ==
    \/ \E core_fee \in 0..MaxFee, cashback_vesting_threshold \in Thresholds :
           pay_fee(core_fee, cashback_vesting_threshold)
    \/ process_fees

(***************************************************************************)
(* Stake-time accumulator                                                  *)
(***************************************************************************)

\* Bounds of the accumulator model.
MaxTick == 6
MaxWindow == 2
MaxBalance == 1
MaxLease == 1
MaxSet == 2

\* Times the calls are given, in seconds, on a half-minute grid.
Times == { 30 * t : t \in 0..MaxTick }

\* Windows, in seconds.
Windows == { 60 * w : w \in 1..MaxWindow }

\* Values set_coin_seconds_earned is given.
SetValues == { 60 * v : v \in 0..MaxSet }

\* fc::time_point_sec( ( now.sec_since_epoch() / 60 ) * 60 )
not_rounded(now) == now

now_rounded_of(now) == (now \div 60) * 60

\* Line 120.  The ledger keeps the effective balance non-negative.
effective_balance == core_balance + core_leased_in - core_leased_out

\* Lines 122-139: the new average.
new_average_coins_without_reset(w, now_rounded) ==
    IF now_rounded <= average_coins_last_update
    THEN average_coins
    ELSE LET delta_seconds == now_rounded - average_coins_last_update
         IN IF delta_seconds >= w
            THEN average_coins
            ELSE LET old_seconds == w - delta_seconds
                     old_coin_seconds == average_coins * old_seconds
                     new_coin_seconds == effective_balance * delta_seconds
                 IN (old_coin_seconds + new_coin_seconds) \div w

new_average_coins_of(w, now_rounded) ==
    IF now_rounded <= average_coins_last_update
    THEN average_coins
    ELSE LET delta_seconds == now_rounded - average_coins_last_update
         IN IF delta_seconds >= w
            THEN effective_balance
            ELSE LET old_seconds == w - delta_seconds
                     old_coin_seconds == average_coins * old_seconds
                     new_coin_seconds == effective_balance * delta_seconds
                 IN (old_coin_seconds + new_coin_seconds) \div w

\* Lines 142-155: the coin-seconds earned before the cap.
new_coin_seconds_earned_restarted(now_rounded) ==
    IF now_rounded <= coin_seconds_earned_last_update
    THEN coin_seconds_earned
    ELSE LET delta_seconds == now_rounded - coin_seconds_earned_last_update
         IN effective_balance * delta_seconds

new_coin_seconds_earned_of(now_rounded) ==
    IF now_rounded <= coin_seconds_earned_last_update
    THEN coin_seconds_earned
    ELSE LET delta_seconds == now_rounded - coin_seconds_earned_last_update
         IN coin_seconds_earned + effective_balance * delta_seconds

\* Lines 156-157: the cap.
not_capped(new_coin_seconds_earned, max_coin_seconds) == new_coin_seconds_earned

capped(new_coin_seconds_earned, max_coin_seconds) ==
    IF new_coin_seconds_earned > max_coin_seconds
    THEN max_coin_seconds
    ELSE new_coin_seconds_earned

\* compute_coin_seconds_earned(window, now): << new_coin_seconds_earned,
\* new_average_coins >>.  The values stay far below 2^64, so the fc::uint128
\* products and the uint64 deltas are exact.
compute_coin_seconds_earned(w, now) ==
    LET now_rounded == now_rounded_of(now)
        new_average_coins == new_average_coins_of(w, now_rounded)
        max_coin_seconds == new_average_coins * w
        new_coin_seconds_earned == new_coin_seconds_earned_of(now_rounded)
    IN << capped(new_coin_seconds_earned, max_coin_seconds), new_average_coins >>

\* Line 165: the early return of update_coin_seconds_earned.
update_returns_early_strict(now_rounded) ==
    /\ now_rounded < coin_seconds_earned_last_update
    /\ now_rounded < average_coins_last_update

update_returns_early(now_rounded) ==
    /\ now_rounded <= coin_seconds_earned_last_update
    /\ now_rounded <= average_coins_last_update

\* The accumulator fields of the statistics object.
Accumulator ==
    [ average_coins |-> average_coins,
      average_coins_last_update |-> average_coins_last_update,
      coin_seconds_earned |-> coin_seconds_earned,
      coin_seconds_earned_last_update |-> coin_seconds_earned_last_update ]

\* The accumulator fields update_coin_seconds_earned(w, now) leaves.
UpdateResult(w, now) ==
    LET now_rounded == now_rounded_of(now)
        result == compute_coin_seconds_earned(w, now_rounded)
    IN IF update_returns_early(now_rounded)
       THEN Accumulator
       ELSE [ average_coins |-> result[2],
              average_coins_last_update |-> now_rounded,
              coin_seconds_earned |-> result[1],
              coin_seconds_earned_last_update |-> now_rounded ]

CoinIdle ==
    /\ core_balance = 0
    /\ core_leased_in = 0
    /\ core_leased_out = 0
    /\ average_coins = 0
    /\ average_coins_last_update = 0
    /\ coin_seconds_earned = 0
    /\ coin_seconds_earned_last_update = 0
    /\ window = 0
    /\ head_block_time = 0

\* A fresh statistics object (both timestamps at the start time, 0) of an
\* account with some balance, and the window of the chain.
CoinInit ==
    /\ core_balance \in 0..MaxBalance
    /\ core_leased_in \in 0..MaxLease
    /\ core_leased_out \in 0..MaxLease
    /\ effective_balance >= 0
    /\ average_coins = 0
    /\ average_coins_last_update = 0
    /\ coin_seconds_earned = 0
    /\ coin_seconds_earned_last_update = 0
    /\ window \in Windows
    /\ head_block_time = 0

update_coin_seconds_earned(w, now) ==
    /\ LET after == UpdateResult(w, now)
       IN /\ average_coins' = after.average_coins
          /\ average_coins_last_update' = after.average_coins_last_update
          /\ coin_seconds_earned' = after.coin_seconds_earned
          /\ coin_seconds_earned_last_update' = after.coin_seconds_earned_last_update
    /\ last_op' = [ name |-> "update", now |-> now,
                    elapsed |-> now_rounded_of(now) - average_coins_last_update,
                    earned |-> coin_seconds_earned ]
    /\ UNCHANGED << core_balance, core_leased_in, core_leased_out, window >>
    /\ UNCHANGED << indexVars, cutVars, feeVars, voteVars >>

\* Lines 178-179: the timestamp set_coin_seconds_earned leaves.
earned_last_update_overwritten(now_rounded) == now_rounded

earned_last_update_after_set(now_rounded) ==
    IF coin_seconds_earned_last_update < now_rounded
    THEN now_rounded
    ELSE coin_seconds_earned_last_update

set_coin_seconds_earned(new_coin_seconds, now) ==
    /\ LET now_rounded == now_rounded_of(now)
       IN /\ coin_seconds_earned' = new_coin_seconds
          /\ coin_seconds_earned_last_update' = earned_last_update_after_set(now_rounded)
    /\ last_op' = [ name |-> "set", now |-> now, value |-> new_coin_seconds ]
    /\ UNCHANGED << average_coins, average_coins_last_update,
                    core_balance, core_leased_in, core_leased_out, window >>
    /\ UNCHANGED << indexVars, cutVars, feeVars, voteVars >>

\* The ledger changes the stake components of the account between calls.
BalanceChanges(balance, leased_in, leased_out) ==
    /\ balance + leased_in - leased_out >= 0
    /\ << balance, leased_in, leased_out >> #
           << core_balance, core_leased_in, core_leased_out >>
    /\ core_balance' = balance
    /\ core_leased_in' = leased_in
    /\ core_leased_out' = leased_out
    /\ last_op' = [ name |-> "balance" ]
    /\ UNCHANGED << average_coins, average_coins_last_update,
                    coin_seconds_earned, coin_seconds_earned_last_update, window >>
    /\ UNCHANGED << indexVars, cutVars, feeVars, voteVars >>

\* update calls with non-decreasing timestamps (each at the time of the
\* ledger, which only advances), the balance changing between them.
NextCoin ==
    \/ \E now \in Times :
           /\ now >= head_block_time
           /\ head_block_time' = now
           /\ update_coin_seconds_earned(window, now)
    \/ \E balance \in 0..MaxBalance, leased_in \in 0..MaxLease, leased_out \in 0..MaxLease :
           /\ BalanceChanges(balance, leased_in, leased_out)
           /\ UNCHANGED head_block_time

\* update and set calls at any time, the balance changing between them.
NextCoinSet ==
    \/ \E now \in Times :
           /\ update_coin_seconds_earned(window, now)
           /\ UNCHANGED head_block_time
    \/ \E new_coin_seconds \in SetValues, now \in Times :
           /\ set_coin_seconds_earned(new_coin_seconds, now)
           /\ UNCHANGED head_block_time
    \/ \E balance \in 0..MaxBalance, leased_in \in 0..MaxLease, leased_out \in 0..MaxLease :
           /\ BalanceChanges(balance, leased_in, leased_out)
           /\ UNCHANGED head_block_time

\* The balance held constant: update calls with non-decreasing timestamps,
\* and further calls at the same or an earlier time.
NextCoinConst ==
    \/ \E now \in Times :
           /\ now >= head_block_time
           /\ head_block_time' = now
           /\ update_coin_seconds_earned(window, now)
    \/ \E now \in Times :
           /\ now <= head_block_time
           /\ UNCHANGED head_block_time
           /\ update_coin_seconds_earned(window, now)

NoOp == [ name |-> "none" ]

(***************************************************************************)
(* platform_vote_update_operation::validate                                *)
(***************************************************************************)

\* Bound of the operation model: the platform UIDs an operation names.
MaxPlatform == 4

Platforms == 1..MaxPlatform

\* The elements of a flat_set in the order its iterators visit them
\* (ascending).
RECURSIVE in_order(_)
in_order(set) ==
    IF set = {}
    THEN << >>
    ELSE LET first == CHOOSE x \in set : \A y \in set : x <= y
         IN << first >> \o in_order(set \ {first})

\* Line 96: the walk advances itr_add, otherwise itr_remove.
remove_is_less(add_uid, remove_uid) == remove_uid < add_uid

add_is_less(add_uid, remove_uid) == add_uid < remove_uid

\* Lines 93-100: the walk from the positions itr_add and itr_remove (an
\* iterator is the position in the order of the set; end() is one past the
\* last).  TRUE when the FC_ASSERT of line 95 fails.
RECURSIVE same_platform_found(_, _, _, _)
same_platform_found(to_add, to_remove, itr_add, itr_remove) ==
    IF itr_add > Len(to_add) \/ itr_remove > Len(to_remove)
    THEN FALSE
    ELSE IF to_add[itr_add] = to_remove[itr_remove]
         THEN TRUE
         ELSE IF add_is_less(to_add[itr_add], to_remove[itr_remove])
              THEN same_platform_found(to_add, to_remove, itr_add + 1, itr_remove)
              ELSE same_platform_found(to_add, to_remove, itr_add, itr_remove + 1)

VoteIdle ==
    /\ platform_to_add = {}
    /\ platform_to_remove = {}
    /\ validate_result = << >>

\* An operation whose fee, voter and platform UIDs are well-formed (the
\* checks of lines 89-90 and 101-104 pass), with any two sets of platforms.
VoteInit ==
    /\ platform_to_add \in SUBSET Platforms
    /\ platform_to_remove \in SUBSET Platforms
    /\ validate_result = << >>

\* validate() returns, or throws with the message of line 95.
validate ==
    /\ validate_result = << >>
    /\ validate_result' =
           IF same_platform_found(in_order(platform_to_add),
                                  in_order(platform_to_remove), 1, 1)
           THEN << "Can not add and remove same platform" >>
           ELSE << "valid" >>
    /\ UNCHANGED << platform_to_add, platform_to_remove >>
    /\ UNCHANGED << indexVars, cutVars, feeVars, coinVars, last_op >>

NextVote == validate

(***************************************************************************)
(* Specifications                                                          *)
(***************************************************************************)

\* The membership index under its lifecycle hooks.
InitIndex ==
    IndexInit /\ CutIdle /\ FeesIdle /\ CoinIdle /\ VoteIdle /\ last_op = NoOp

SpecMembers == InitIndex /\ [][NextMembers]_vars

SpecIndex == InitIndex /\ [][NextIndex]_vars

\* cut_fee on its own.
InitCut ==
    IndexInit /\ CutInit /\ FeesIdle /\ CoinIdle /\ VoteIdle /\ last_op = NoOp

SpecCut == InitCut /\ [][NextCut]_vars

\* pay_fee and process_fees on one account.
InitFees ==
    IndexInit /\ CutIdle /\ FeesInit /\ CoinIdle /\ VoteIdle /\ last_op = NoOp

SpecFees == InitFees /\ [][NextFees]_vars

\* The accumulator under update calls with non-decreasing timestamps.
InitCoin ==
    IndexInit /\ CutIdle /\ FeesIdle /\ CoinInit /\ VoteIdle /\ last_op = NoOp

SpecCoin == InitCoin /\ [][NextCoin]_vars

\* The accumulator under update and set calls.
SpecCoinSet == InitCoin /\ [][NextCoinSet]_vars

\* The accumulator of an account whose balance stays as it is.
SpecCoinConst == InitCoin /\ [][NextCoinConst]_vars

\* validate() of a platform_vote_update_operation.
InitVote ==
    IndexInit /\ CutIdle /\ FeesIdle /\ CoinIdle /\ VoteInit /\ last_op = NoOp

SpecVote == InitVote /\ [][NextVote]_vars

\* Everything together: the index, cut_fee, the fee operations, the
\* accumulator operations and validate in any order.
Init == IndexInit /\ CutInit /\ FeesInit /\ CoinInit /\ VoteInit /\ last_op = NoOp

Next == NextIndex \/ NextMembers \/ NextCut \/ NextFees \/ NextCoinSet \/ NextVote

Spec == Init /\ [][Next]_vars

(***************************************************************************)
(* Properties                                                              *)
(***************************************************************************)

\* The relations a rebuild from scratch over all live accounts produces.
LiveAccounts == { u \in Uids : accounts[u] # NoAccount }

RebuiltAccountMemberships ==
    [m \in Uids |-> { u \in LiveAccounts : m \in get_account_members(accounts[u]) }]

RebuiltKeyMemberships ==
    [k \in Keys |-> { u \in LiveAccounts : k \in get_key_members(accounts[u]) }]

\* C1: after any sequence of object_inserted, (about_to_modify,
\* object_modified) pairs and object_removed, the incrementally maintained
\* reverse relations equal the relations rebuilt from scratch over all live
\* accounts: for every member, exactly the live accounts that reference it.
C1_IndexEqualsRebuild ==
    /\ account_to_account_memberships = RebuiltAccountMemberships
    /\ account_to_key_memberships = RebuiltKeyMemberships

\* Both live accounts reference the same account and the same key, and one
\* of them does so since a modification that took another member away.
C1_Witness ==
    /\ LiveAccounts = Uids
    /\ modifying = 0
    /\ \E m \in Uids : account_to_account_memberships[m] = Uids
    /\ \E k \in Keys : account_to_key_memberships[k] = Uids
    /\ before_account_members # {}
    /\ \E u \in Uids : before_account_members \cap get_account_members(accounts[u]) = {}

\* C2: the shares of every pay_out_fees call pass its three assertions:
\* network_cut <= total, accumulated + reserved = network_cut, and the five
\* shares sum to the total exactly.
C2_SharesSumToTotal ==
    \A i \in DOMAIN payouts :
        LET s == payouts[i]
        IN /\ s.network_cut <= s.core_fee_total
           /\ s.accumulated + s.reserveed = s.network_cut
           /\ s.referrer_cut + s.registrar_cut + s.accumulated + s.reserveed
                  + s.lifetime_cut = s.core_fee_total

\* A pool whose network, reserved, lifetime and referrer shares are all cut
\* with a remainder lost to the floor.
C2_Witness ==
    \E i \in DOMAIN payouts :
        LET s == payouts[i]
        IN /\ s.core_fee_total > 0
           /\ s.network_cut > 0
           /\ s.lifetime_cut > 0
           /\ s.referral > 0
           /\ (s.core_fee_total * network_fee_percentage) % GRAPHENE_100_PERCENT # 0
           /\ (s.referral * referrer_rewards_percentage) % GRAPHENE_100_PERCENT # 0

\* C3: for amount >= 0 and 0 <= percentage <= FULL, cut_fee returns
\* floor(amount * percentage / FULL), which lies in 0..amount, is 0 for
\* percentage 0 and is amount for percentage FULL.
C3_CutFeeIsFloor ==
    cut_result # << >> =>
        /\ cut_result[1] = (cut_a * cut_p) \div GRAPHENE_100_PERCENT
        /\ 0 <= cut_result[1]
        /\ cut_result[1] <= cut_a
        /\ (cut_p = 0 => cut_result[1] = 0)
        /\ (cut_p = GRAPHENE_100_PERCENT => cut_result[1] = cut_a)

\* A cut strictly between 0 and the amount that the floor rounds down.
C3_Witness ==
    /\ cut_result # << >>
    /\ 0 < cut_result[1]
    /\ cut_result[1] < cut_a
    /\ (cut_a * cut_p) % GRAPHENE_100_PERCENT # 0

CountOf(seq, x) == Cardinality({ i \in DOMAIN seq : seq[i] = x })

\* C4: a process_fees call with a pool nonzero adds both pools to
\* lifetime_fees_paid and zeroes both, in one mutation of the statistics
\* object.
C4_LifetimeFeesPaid ==
    [][ (last_op'.name = "process_fees" /\ (pending_fees # 0 \/ pending_vested_fees # 0))
        => /\ lifetime_fees_paid' = lifetime_fees_paid + pending_fees + pending_vested_fees
           /\ pending_fees' = 0
           /\ pending_vested_fees' = 0
           /\ CountOf(mutations', "account_statistics") = 1 ]_vars

\* A distribution of two nonzero pools on top of fees paid before.
C4_Witness ==
    /\ last_op.name = "process_fees"
    /\ Len(payouts) = 2
    /\ payouts[1].core_fee_total > 0
    /\ payouts[2].core_fee_total > 0
    /\ lifetime_fees_paid > payouts[1].core_fee_total + payouts[2].core_fee_total
    /\ pending_fees = 0
    /\ pending_vested_fees = 0

\* C5: a process_fees call with both pools 0 changes no field of the
\* statistics object, leaves the referrer and accumulated_fees as they are and
\* makes no deposit_cashback and no modify call; so the second of two calls in
\* a row changes nothing.
C5_NoOpOnZero ==
    [][ (last_op'.name = "process_fees"
            /\ (\/ (pending_fees = 0 /\ pending_vested_fees = 0)
                \/ last_op.name = "process_fees"))
        => /\ UNCHANGED << pending_fees, pending_vested_fees, lifetime_fees_paid,
                           referrer, accumulated_fees, coinVars >>
           /\ payouts' = << >>
           /\ deposits' = << >>
           /\ mutations' = << >> ]_vars

\* A call on zero pools that left a basic referrer in place.
C5_Witness ==
    /\ last_op.name = "process_fees"
    /\ payouts = << >>
    /\ deposits = << >>
    /\ referrer \in basic_accounts
    /\ referrer # lifetime_referrer

\* C6: when a distribution runs while the referrer is a basic account, the
\* referrer is the lifetime_referrer afterwards and the referrer_cut of each
\* pool is deposited to it; the demoted referrer is deposited nothing, unless
\* it is the lifetime_referrer itself.
C6_ReferrerDemotion ==
    [][ (last_op'.name = "process_fees" /\ has_pending /\ referrer \in basic_accounts)
        => /\ referrer' = lifetime_referrer
           /\ Len(deposits') = 6
           /\ deposits'[2] = [ to |-> lifetime_referrer,
                               amount |-> payouts'[1].referrer_cut,
                               require_vesting |-> TRUE ]
           /\ deposits'[5] = [ to |-> lifetime_referrer,
                               amount |-> payouts'[2].referrer_cut,
                               require_vesting |-> FALSE ]
           /\ referrer # lifetime_referrer
                  => \A i \in DOMAIN deposits' : deposits'[i].to # referrer ]_vars

\* A distribution that rewrote the referrer and paid it a nonzero cut.
C6_Witness ==
    /\ last_op.name = "process_fees"
    /\ mutations # << >>
    /\ mutations[1] = "account"
    /\ referrer = lifetime_referrer
    /\ deposits[2].to = lifetime_referrer
    /\ deposits[2].amount > 0
    /\ basic_accounts # {}
    /\ referrer \notin basic_accounts

\* C7: for a fixed window, under update calls with non-decreasing
\* timestamps and a balance that changes between them, coin_seconds_earned
\* never exceeds average_coins * window.
C7_EarnedWithinCap ==
    coin_seconds_earned <= average_coins * window

\* An update inside the window, on a balance above the average, that left
\* the earned value at the cap.
C7_Witness ==
    /\ last_op.name = "update"
    /\ last_op.elapsed > 0
    /\ last_op.elapsed < window
    /\ average_coins > 0
    /\ effective_balance > average_coins
    /\ coin_seconds_earned = average_coins * window

\* C8 as stated: update is a no-op whenever now, floored to the minute, is at
\* or before average_coins_last_update or at or before
\* coin_seconds_earned_last_update.
C8_NoOpIfNotAfterEither ==
    [][ (/\ last_op'.name = "update"
         /\ \/ (last_op'.now \div 60) * 60 <= average_coins_last_update
            \/ (last_op'.now \div 60) * 60 <= coin_seconds_earned_last_update)
        => UNCHANGED << average_coins, average_coins_last_update,
                        coin_seconds_earned, coin_seconds_earned_last_update >> ]_vars

\* C8, amended: update is a no-op whenever now, floored to the minute, is at
\* or before both average_coins_last_update and
\* coin_seconds_earned_last_update.
C8_NoOpIfNotAfterBoth ==
    [][ (/\ last_op'.name = "update"
         /\ (last_op'.now \div 60) * 60 <= average_coins_last_update
         /\ (last_op'.now \div 60) * 60 <= coin_seconds_earned_last_update)
        => UNCHANGED << average_coins, average_coins_last_update,
                        coin_seconds_earned, coin_seconds_earned_last_update >> ]_vars

\* An update at the minute of both timestamps that returned early: the earned
\* value, set above the cap, is still above it.
C8_Witness ==
    /\ last_op.name = "update"
    /\ (last_op.now \div 60) * 60 = average_coins_last_update
    /\ (last_op.now \div 60) * 60 = coin_seconds_earned_last_update
    /\ average_coins_last_update > 0
    /\ coin_seconds_earned > average_coins * window

\* C9: two times of the same minute give the same update result and the same
\* compute result, for any window, and after an update a further update
\* within the same minute changes nothing.
C9_SubMinuteTimingIgnored ==
    /\ \A w \in Windows, now1 \in Times, now2 \in Times :
           (now1 < now2 /\ now1 \div 60 = now2 \div 60) =>
               /\ UpdateResult(w, now1) = UpdateResult(w, now2)
               /\ compute_coin_seconds_earned(w, now1) = compute_coin_seconds_earned(w, now2)
    /\ last_op.name = "update" =>
           \A w \in Windows, now2 \in Times :
               now2 \div 60 = last_op.now \div 60 => UpdateResult(w, now2) = Accumulator

\* An update given a time inside a minute that committed at the minute.
C9_Witness ==
    /\ last_op.name = "update"
    /\ last_op.now % 60 # 0
    /\ last_op.elapsed > 0
    /\ average_coins_last_update = (last_op.now \div 60) * 60
    /\ coin_seconds_earned_last_update = average_coins_last_update
    /\ coin_seconds_earned > 0

\* C10 as stated: from a fresh record with the balance constant, once the
\* last of the update calls (non-decreasing timestamps) is at least a window
\* after the start, average_coins is the balance and coin_seconds_earned is
\* balance * window.
C10_FullAfterWindowFromStart ==
    (last_op.name = "update" /\ last_op.now = head_block_time /\ last_op.now >= window)
        => /\ average_coins = effective_balance
           /\ coin_seconds_earned = effective_balance * window

\* C10, amended: from a fresh record with the balance constant, an update
\* call whose time, floored to the minute, is at least a window after the
\* previous update (the start, for the first one) leaves average_coins at the
\* balance and coin_seconds_earned at balance * window; an update call at the
\* same or an earlier time than the latest changes neither.
C10_FullAfterWindowSinceUpdate ==
    [][ last_op'.name = "update"
        => /\ (last_op'.now \div 60) * 60 - average_coins_last_update >= window
                  => /\ average_coins' = effective_balance
                     /\ coin_seconds_earned' = effective_balance * window
           /\ last_op'.now <= head_block_time
                  => UNCHANGED << average_coins, coin_seconds_earned >> ]_vars

\* A second update, a whole window after the first, of a nonzero balance.
C10_Witness ==
    /\ last_op.name = "update"
    /\ last_op.elapsed >= window
    /\ last_op.elapsed < average_coins_last_update
    /\ effective_balance > 0
    /\ average_coins = effective_balance
    /\ coin_seconds_earned = effective_balance * window

\* C11: for amount >= 0 and 0 <= p <= FULL, cut_fee(amount, p) +
\* cut_fee(amount, FULL - p) never exceeds amount and is at most 1 below it.
C11_ComplementaryCuts ==
    cut_result # << >> =>
        LET both == cut_result[1] + cut_fee(cut_a, GRAPHENE_100_PERCENT - cut_p)
        IN /\ both <= cut_a
           /\ cut_a - both <= 1

\* Two complementary cuts that both lose a remainder: their sum is 1 short.
C11_Witness ==
    /\ cut_result # << >>
    /\ cut_result[1] > 0
    /\ cut_result[1] + cut_fee(cut_a, GRAPHENE_100_PERCENT - cut_p) = cut_a - 1

\* C12: original statement.  Across update_coin_seconds_earned calls with
\* non-decreasing timestamps, the balance changing between them, the committed
\* coin_seconds_earned never becomes smaller than its previous value.
C12_EarnedNeverSmaller ==
    [][last_op'.name = "update" => coin_seconds_earned' >= coin_seconds_earned]_vars

\* C12: amended statement.  Across update_coin_seconds_earned calls with
\* non-decreasing timestamps, the balance changing between them, the committed
\* coin_seconds_earned becomes smaller than its previous value only by being
\* cut to the cap, the new average_coins * window.
C12_EarnedSmallerOnlyByCap ==
    [][last_op'.name = "update" =>
           \/ coin_seconds_earned' >= coin_seconds_earned
           \/ coin_seconds_earned' = average_coins' * window]_vars

\* An update after the balance fell: the cap of the lower average cut the
\* coin-seconds the previous call had committed.
C12_Witness ==
    /\ last_op.name = "update"
    /\ last_op.elapsed > 0
    /\ coin_seconds_earned < last_op.earned
    /\ coin_seconds_earned = average_coins * window

\* The three deposit_cashback calls the claims name for one pool.
PoolDeposits(core_fee_total, require_vesting, ref) ==
    LET network_cut == cut_fee(core_fee_total, network_fee_percentage)
        lifetime_cut == cut_fee(core_fee_total, lifetime_referrer_fee_percentage)
        referral == core_fee_total - network_cut - lifetime_cut
        referrer_cut == cut_fee(referral, referrer_rewards_percentage)
    IN << [ to |-> lifetime_referrer, amount |-> lifetime_cut,
            require_vesting |-> require_vesting ],
          [ to |-> ref, amount |-> referrer_cut,
            require_vesting |-> require_vesting ],
          [ to |-> registrar, amount |-> referral - referrer_cut,
            require_vesting |-> require_vesting ] >>

\* C13: for each pool process_fees distributes, it deposits exactly
\* lifetime_cut = cut(total, lifetime_referrer_fee_percentage) to the lifetime
\* referrer, referrer_cut = cut(total - network_cut - lifetime_cut,
\* referrer_rewards_percentage) to the referrer and registrar_cut = referral -
\* referrer_cut to the registrar, with require_vesting true for the
\* pending_fees pool and false for the pending_vested_fees pool.
C13_DepositsPerPool ==
    [][(last_op'.name = "process_fees"
            /\ (pending_fees > 0 \/ pending_vested_fees > 0)) =>
           deposits' = PoolDeposits(pending_fees, TRUE, referrer')
                           \o PoolDeposits(pending_vested_fees, FALSE, referrer')]_vars

\* A distribution of pending_fees that pays the lifetime referrer and the
\* referral side, each call requiring vesting; the calls of the other pool
\* do not.
C13_Witness ==
    /\ last_op.name = "process_fees"
    /\ Len(deposits) = 6
    /\ deposits[1].amount > 0
    /\ deposits[2].amount + deposits[3].amount > 0
    /\ \A i \in 1..3 : deposits[i].require_vesting
    /\ \A i \in 4..6 : ~deposits[i].require_vesting

\* C14: original statement.  When exactly one pool is 0, process_fees performs
\* no distribution step for the zero pool: no deposit_cashback call with that
\* pool's require_vesting flag and no accumulated_fees mutation on its behalf.
C14_NoStepForZeroPool ==
    [][\A zero \in BOOLEAN :
           (/\ last_op'.name = "process_fees"
            /\ (IF zero THEN pending_fees ELSE pending_vested_fees) = 0
            /\ (IF zero THEN pending_vested_fees ELSE pending_fees) > 0) =>
               /\ \A i \in 1..Len(deposits') : deposits'[i].require_vesting # zero
               /\ CountOf(mutations', "asset_dynamic_data") = 1]_vars

\* C14: amended statement.  When exactly one pool is 0, the distribution runs
\* for the zero pool too and moves nothing: its three deposit_cashback calls
\* (with that pool's require_vesting flag) carry amount 0, and accumulated_fees
\* grows by the network cut of the other pool only.
C14_ZeroPoolMovesNothing ==
    [][\A zero \in BOOLEAN :
           LET other == IF zero THEN pending_vested_fees ELSE pending_fees
           IN (/\ last_op'.name = "process_fees"
               /\ (IF zero THEN pending_fees ELSE pending_vested_fees) = 0
               /\ other > 0) =>
                  /\ \A i \in 1..Len(deposits') :
                         deposits'[i].require_vesting = zero => deposits'[i].amount = 0
                  /\ accumulated_fees' =
                         accumulated_fees + cut_fee(other, network_fee_percentage)]_vars

\* pending_fees is 0 and pending_vested_fees is distributed: three calls of
\* amount 0 with require_vesting true precede the three of the other pool.
C14_Witness ==
    /\ last_op.name = "process_fees"
    /\ Len(deposits) = 6
    /\ payouts[1].core_fee_total = 0
    /\ payouts[2].core_fee_total > 0
    /\ \A i \in 1..3 : deposits[i].require_vesting /\ deposits[i].amount = 0
    /\ \E i \in 4..6 : deposits[i].amount > 0
    /\ accumulated_fees > 0

\* C15: accumulated_fees is never decremented: process_fees increases it by
\* exactly the sum of network_cut of the pools it distributes (the full
\* network cut, the reserved share included), and pay_fee leaves it alone.
C15_AccumulatedFeesGrowByNetworkCut ==
    [][/\ accumulated_fees' >= accumulated_fees
       /\ last_op'.name = "pay_fee" => accumulated_fees' = accumulated_fees
       /\ last_op'.name = "process_fees" =>
              accumulated_fees' = accumulated_fees +
                  (IF pending_fees > 0 \/ pending_vested_fees > 0
                   THEN cut_fee(pending_fees, network_fee_percentage)
                            + cut_fee(pending_vested_fees, network_fee_percentage)
                   ELSE 0)]_vars

\* A distribution whose network cut has a reserved share.
C15_Witness ==
    /\ last_op.name = "process_fees"
    /\ accumulated_fees > 0
    /\ \E i \in 1..Len(payouts) :
           /\ payouts[i].reserveed > 0
           /\ payouts[i].accumulated > 0

\* C16: pay_fee adds core_fee to pending_fees when core_fee is strictly above
\* cashback_vesting_threshold and to pending_vested_fees otherwise (equality
\* included); the other counter and every other field stay unchanged.
C16_PayFeeRouting ==
    [][last_op'.name = "pay_fee" =>
           LET core_fee == last_op'.core_fee
               cashback_vesting_threshold == last_op'.cashback_vesting_threshold
           IN /\ IF core_fee > cashback_vesting_threshold
                 THEN /\ pending_fees' = pending_fees + core_fee
                      /\ pending_vested_fees' = pending_vested_fees
                 ELSE /\ pending_vested_fees' = pending_vested_fees + core_fee
                      /\ pending_fees' = pending_fees
              /\ UNCHANGED << lifetime_fees_paid, accumulated_fees, referrer,
                              lifetime_referrer, registrar, coinVars >>]_vars

\* A fee equal to the threshold went to pending_vested_fees.
C16_Witness ==
    /\ last_op.name = "pay_fee"
    /\ last_op.core_fee = last_op.cashback_vesting_threshold
    /\ last_op.core_fee > 0
    /\ pending_vested_fees >= last_op.core_fee
    /\ pending_fees = 0

\* C19: with network_fee_percentage + lifetime_referrer_fee_percentage <=
\* GRAPHENE_100_PERCENT, referrer_rewards_percentage <= GRAPHENE_100_PERCENT and
\* a total >= 0, each of network_cut, lifetime_cut, referral, referrer_cut and
\* registrar_cut is non-negative.
C19_SharesNonNegative ==
    (/\ network_fee_percentage + lifetime_referrer_fee_percentage <= GRAPHENE_100_PERCENT
     /\ referrer_rewards_percentage <= GRAPHENE_100_PERCENT) =>
        /\ \A i \in 1..Len(payouts) :
               payouts[i].core_fee_total >= 0 =>
                   /\ payouts[i].network_cut >= 0
                   /\ payouts[i].lifetime_cut >= 0
                   /\ payouts[i].referral >= 0
                   /\ payouts[i].referrer_cut >= 0
                   /\ payouts[i].registrar_cut >= 0
        /\ \A i \in 1..Len(deposits) : deposits[i].amount >= 0

\* The two percentages add up to 100%: nothing of a pool is left for the
\* referral side.
C19_Witness ==
    /\ last_op.name = "process_fees"
    /\ network_fee_percentage + lifetime_referrer_fee_percentage = GRAPHENE_100_PERCENT
    /\ \E i \in 1..Len(payouts) :
           /\ payouts[i].core_fee_total > 0
           /\ payouts[i].referral = 0
           /\ payouts[i].registrar_cut = 0

\* C17: set_coin_seconds_earned(new_value, now) always sets
\* coin_seconds_earned to new_value, sets coin_seconds_earned_last_update to
\* now floored to the minute only when that is strictly later than the stored
\* value, and leaves average_coins and average_coins_last_update unchanged.
C17_SetFrame ==
    [][last_op'.name = "set" =>
           LET now_rounded == (last_op'.now \div 60) * 60
           IN /\ coin_seconds_earned' = last_op'.value
              /\ coin_seconds_earned_last_update' =
                     IF now_rounded > coin_seconds_earned_last_update
                     THEN now_rounded
                     ELSE coin_seconds_earned_last_update
              /\ UNCHANGED << average_coins, average_coins_last_update >>]_vars

\* A set call at a time before the stored timestamp: the value is replaced,
\* the timestamp stays.
C17_Witness ==
    /\ last_op.name = "set"
    /\ (last_op.now \div 60) * 60 < coin_seconds_earned_last_update
    /\ coin_seconds_earned = last_op.value
    /\ last_op.value > 0
    /\ average_coins_last_update > 0

\* C20: across any interleaving of update_coin_seconds_earned and
\* set_coin_seconds_earned calls with arbitrary now arguments, neither
\* coin_seconds_earned_last_update nor average_coins_last_update moves backward.
C20_TimestampsNeverBackward ==
    [][/\ coin_seconds_earned_last_update' >= coin_seconds_earned_last_update
       /\ average_coins_last_update' >= average_coins_last_update]_vars

\* C18: original statement.  The account members of an account are the UIDs
\* appearing with nonzero weight in its owner, active or secondary account
\* lists, its key members the keys of its owner and active authorities plus
\* its memo key (keys only in the secondary authority excluded); an account
\* is listed under a UID or key in the reverse relations exactly when that
\* UID or key is in these sets.
C18_ListedUnderNonzeroWeightMembers ==
    \A u \in Uids :
        accounts[u] # NoAccount =>
            LET acc == accounts[u]
                entries == acc.owner.account_uid_auths \cup acc.active.account_uid_auths
                               \cup acc.secondary.account_uid_auths
            IN /\ \A m \in Uids :
                      u \in account_to_account_memberships[m]
                          <=> \E auth \in entries : auth.uid = m /\ auth.weight # 0
               /\ \A k \in Keys :
                      u \in account_to_key_memberships[k]
                          <=> (k \in acc.owner.key_auths \/ k \in acc.active.key_auths
                                   \/ k = acc.memo_key)

\* C18: amended statement.  The account members of an account are the UIDs
\* appearing, with any weight (0 included), in its owner, active or secondary
\* account lists, its key members the keys of its owner and active
\* authorities plus its memo key (keys only in the secondary authority
\* excluded); an account is listed under a UID or key in the reverse
\* relations exactly when that UID or key is in these sets.
C18_ListedUnderMembersOfAnyWeight ==
    \A u \in Uids :
        accounts[u] # NoAccount =>
            LET acc == accounts[u]
                entries == acc.owner.account_uid_auths \cup acc.active.account_uid_auths
                               \cup acc.secondary.account_uid_auths
            IN /\ \A m \in Uids :
                      u \in account_to_account_memberships[m]
                          <=> \E auth \in entries : auth.uid = m
               /\ \A k \in Keys :
                      u \in account_to_key_memberships[k]
                          <=> (k \in acc.owner.key_auths \/ k \in acc.active.key_auths
                                   \/ k = acc.memo_key)

\* An account that names a UID with weight 0 in its secondary authority is
\* listed under that UID, next to an account whose secondary key is not
\* listed.
C18_Witness ==
    /\ modifying = 0
    /\ \E u \in Uids :
           /\ accounts[u] # NoAccount
           /\ \E auth \in accounts[u].secondary.account_uid_auths :
                  /\ auth.weight = 0
                  /\ u \in account_to_account_memberships[auth.uid]
    /\ \E u \in Uids :
           /\ accounts[u] # NoAccount
           /\ \E k \in accounts[u].secondary.key_auths :
                  u \notin account_to_key_memberships[k]

\* C21: the merge walk of platform_vote_update_operation::validate rejects
\* the operation with "Can not add and remove same platform" if and only if
\* platform_to_add and platform_to_remove have a UID in common, for every
\* pair of sets (either of them empty, or the common UID last in either,
\* included).
C21_RejectsIffCommonPlatform ==
    validate_result # << >> =>
        (validate_result[1] = "Can not add and remove same platform"
             <=> platform_to_add \cap platform_to_remove # {})

\* Rejected for a single common UID that is the last element of both sets,
\* each of which has smaller elements the walk passes first.
C21_Witness ==
    /\ validate_result = << "Can not add and remove same platform" >>
    /\ Cardinality(platform_to_add) >= 2
    /\ Cardinality(platform_to_remove) >= 2
    /\ \E uid \in Platforms :
           /\ platform_to_add \cap platform_to_remove = {uid}
           /\ \A other \in platform_to_add \cup platform_to_remove : other <= uid

====
